---- MODULE Spec2Model ----
(***************************************************************************)
(* Model of pandas_schema/validation.py: the rule classes, the combinators *)
(* built by ~, & and |, and SeriesValidation.get_errors, which turns a     *)
(* rule's boolean mask over a column into a list of ValidationWarning.     *)
(*                                                                         *)
(* A column is the pair (series, column) that get_errors receives: the     *)
(* series carries name, index (distinct row keys, in row order) and values,*)
(* column carries allow_empty.  A mask is the sequence of its entries in   *)
(* row order: every library rule returns a Series over the column's own    *)
(* index, and the custom-series predicates modelled here return either     *)
(* such a Series or a plain array, so masks combine by position and        *)
(* operands of different length raise.                                     *)
(***************************************************************************)
EXTENDS Integers, Sequences, FiniteSets, TLC

(***************************************************************************)
(* series       the pandas Series passed to validate / get_errors          *)
(* column       the Column object passed to get_errors (allow_empty)       *)
(* str_accessor whether reading series.unicode (line 87) yields a string   *)
(*              accessor.  pandas itself defines none under that name (the *)
(*              rest of the file spells the accessor .str), so the read    *)
(*              raises AttributeError (FALSE); TRUE covers a Series class  *)
(*              that does provide it, with the string accessor's meaning   *)
(* rule         the rule object at hand (self)                             *)
(* outcome      what the last call returned or raised                      *)
(* remembered   history: the first get_errors call kept for comparison     *)
(***************************************************************************)
VARIABLES series, column, str_accessor, rule, outcome, remembered

vars == <<series, column, str_accessor, rule, outcome, remembered>>

(***************************************************************************)
(* Bounds of the model.                                                    *)
(***************************************************************************)
MaxLen == 2
MaxDepth == 3

(***************************************************************************)
(* Scalars held by a column: strings, numbers and null (None / NaN).       *)
(***************************************************************************)
Str(t) == [k |-> "str", s |-> t, n |-> 0]
Num(i) == [k |-> "num", s |-> "", n |-> i]
Null == [k |-> "null", s |-> "", n |-> 0]

ColumnName == "Age"
CellValues == {Str(""), Str("x"), Num(5), Null}
RangeValues == {Num(0 - 3), Num(0), Num(10), Num(15), Str("7"), Str("x")}

\* The range limits of InRangeValidation: a number or an infinity.
Fin(i) == [k |-> "fin", n |-> i]
NegInf == [k |-> "ninf", n |-> 0]
PosInf == [k |-> "pinf", n |-> 0]

\* The message keyword argument: absent (None) or a string.
NoMessage == [given |-> FALSE, text |-> ""]
Message(t) == [given |-> TRUE, text |-> t]
Messages == {NoMessage, Message(""), Message("custom")}

(***************************************************************************)
(* Python objects handed to CanCallValidation / CanConvertValidation: each *)
(* is characterised by whether it is callable, whether it is a type, and   *)
(* the set of scalars on which calling it raises.                          *)
(***************************************************************************)
IntType == [name |-> "int", callable |-> TRUE, is_type |-> TRUE,
            raises |-> {Str(""), Str("x"), Null}]
RaiseOn5 == [name |-> "raise_on_5", callable |-> TRUE, is_type |-> FALSE,
             raises |-> {Num(5)}]
NotCallable == [name |-> "3", callable |-> FALSE, is_type |-> FALSE,
                raises |-> {}]
\* The builtin `type`, which CanCallValidation.__init__ tests at line 247.
BuiltinType == [name |-> "type", callable |-> TRUE, is_type |-> TRUE,
                raises |-> {}]
PyObjects == {IntType, RaiseOn5, NotCallable}

\* User predicates of CustomElementValidation: value -> bool.
IsX == [name |-> "is_x", true_on |-> {Str("x")}]
ElementPredicates == {IsX}

\* User predicates of CustomSeriesValidation: series -> mask.  not_null
\* answers for every row (series.notnull()); dropna_is_x answers only for
\* the rows that are not null (series.dropna().values == "x").
NotNullPred == [name |-> "not_null"]
DropnaPred == [name |-> "dropna_is_x"]
SeriesPredicates == {NotNullPred, DropnaPred}

(***************************************************************************)
(* Sequence helpers.                                                       *)
(***************************************************************************)
RECURSIVE SeqsUpTo(_, _)
SeqsUpTo(S, n) ==
    IF n = 0 THEN {<<>>}
    ELSE LET shorter == SeqsUpTo(S, n - 1)
         IN shorter \cup {Append(q, e) : q \in {p \in shorter : Len(p) = n - 1}, e \in S}

\* Positions of q, in order, whose flag in sel is TRUE (boolean indexing).
RECURSIVE Positions(_, _)
Positions(sel, i) ==
    IF i > Len(sel) THEN <<>>
    ELSE IF sel[i] THEN <<i>> \o Positions(sel, i + 1)
    ELSE Positions(sel, i + 1)

(***************************************************************************)
(* Outcomes of a call: a value returned or an exception raised.            *)
(***************************************************************************)
Returned(op, m, e) ==
    [op |-> op, raised |-> "", mask |-> m, errors |-> e]
Raised(op, exc) ==
    [op |-> op, raised |-> exc, mask |-> <<>>, errors |-> <<>>]
NoOutcome == Returned("none", <<>>, <<>>)

(***************************************************************************)
(* Rule objects.  A rule is a record of its class and attributes; the      *)
(* combinators hold their operands as sub-records.                         *)
(***************************************************************************)
NoRule == [cls |-> "None"]

InRangeValidation(min, max, msg) ==
    [cls |-> "InRangeValidation", min |-> min, max |-> max, custom_message |-> msg]

CustomElementValidation(validation, msg) ==
    [cls |-> "CustomElementValidation", validation |-> validation,
     custom_message |-> msg]

CustomSeriesValidation(validation, msg) ==
    [cls |-> "CustomSeriesValidation", validation |-> validation,
     custom_message |-> msg]

InverseValidation(validation) ==
    [cls |-> "InverseValidation", negated |-> validation, custom_message |-> NoMessage]

CombinedValidation(validation_a, validation_b, operator) ==
    [cls |-> "CombinedValidation", operator |-> operator, v_a |-> validation_a,
     v_b |-> validation_b, custom_message |-> NoMessage]

\* A constructor call either yields the object or raises.
Built(r) == [raised |-> "", rule |-> r]
NotBuilt(exc) == [raised |-> exc, rule |-> NoRule]

\* CanCallValidation.__init__: the test is callable(type), on the builtin.
CanCallValidation_init(cls, func, msg) ==
    IF BuiltinType.callable
    THEN Built([cls |-> cls, callable |-> func, custom_message |-> msg])
    ELSE NotBuilt("PanSchArgumentError")

CanCallValidation(func, msg) == CanCallValidation_init("CanCallValidation", func, msg)

\* CanConvertValidation.__init__: isinstance(_type, type), then the parent's.
CanConvertValidation(type, msg) ==
    IF type.is_type
    THEN CanCallValidation_init("CanConvertValidation", type, msg)
    ELSE NotBuilt("PanSchArgumentError")

IsLeaf(r) == r.cls \notin {"None", "InverseValidation", "CombinedValidation"}

RECURSIVE Depth(_)
Depth(r) ==
    CASE r.cls = "InverseValidation" -> 1 + Depth(r.negated)
      [] r.cls = "CombinedValidation" ->
            1 + (IF Depth(r.v_a) >= Depth(r.v_b) THEN Depth(r.v_a) ELSE Depth(r.v_b))
      [] OTHER -> 0

(***************************************************************************)
(* Messages.                                                               *)
(***************************************************************************)
FormatLimit(b) ==
    CASE b.k = "fin" -> ToString(b.n)
      [] b.k = "ninf" -> "-inf"
      [] b.k = "pinf" -> "inf"

OperatorRepr(operator) == "<built-in function " \o operator \o ">"

RECURSIVE SeriesValidation_message(_)
\* default_message of each class.  The custom rules of the model are built
\* with a non-empty message, so theirs is never read.
default_message(r) ==
    CASE r.cls = "InRangeValidation" ->
            "was not in the range [" \o FormatLimit(r.min) \o ", "
                \o FormatLimit(r.max) \o ")"
      [] r.cls = "CanCallValidation" ->
            "raised an exception when the callable " \o r.callable.name
                \o " was called on it"
      [] r.cls = "CanConvertValidation" ->
            "cannot be converted to type " \o r.callable.name
      [] r.cls = "InverseValidation" ->
            SeriesValidation_message(r.negated) \o " <negated>"
      [] r.cls = "CombinedValidation" ->
            "(" \o SeriesValidation_message(r.v_a) \o ") " \o OperatorRepr(r.operator)
                \o " (" \o SeriesValidation_message(r.v_b) \o ")"

\* self._custom_message or self.default_message: None and "" are both falsy.
SeriesValidation_message(r) ==
    IF r.custom_message.given /\ r.custom_message.text # ""
    THEN r.custom_message.text
    ELSE default_message(r)

(***************************************************************************)
(* validate of each class.                                                 *)
(***************************************************************************)
\* pd.to_numeric on one value: numbers stay, null and the empty string become
\* NaN, a numeral is parsed, any other string cannot be parsed.
IsNumeral(t) == t \in {"7"}
NumeralValue(t) == CASE t = "7" -> 7
CanCoerce(v) == v.k # "str" \/ v.s = "" \/ IsNumeral(v.s)
to_numeric(v) ==
    CASE v.k = "num" -> v
      [] v.k = "null" -> Null
      [] v.k = "str" /\ v.s = "" -> Null
      [] v.k = "str" /\ IsNumeral(v.s) -> Num(NumeralValue(v.s))

\* v >= limit and v < limit on a coerced value; comparisons with NaN are false.
GreaterEqual(v, limit) ==
    /\ v.k = "num"
    /\ CASE limit.k = "fin" -> v.n >= limit.n
         [] limit.k = "ninf" -> TRUE
         [] limit.k = "pinf" -> FALSE
\* Variant: the upper limit taken as inclusive.
LessOrEqual(v, limit) ==
    /\ v.k = "num"
    /\ CASE limit.k = "fin" -> v.n <= limit.n
         [] limit.k = "ninf" -> FALSE
         [] limit.k = "pinf" -> TRUE
LessThan(v, limit) ==
    /\ v.k = "num"
    /\ CASE limit.k = "fin" -> v.n < limit.n
         [] limit.k = "ninf" -> FALSE
         [] limit.k = "pinf" -> TRUE

\* Variant: coercion with errors turned into NaN instead of raised.
InRangeValidation_validate_coerce(r, s) ==
    Returned("validate",
             [i \in 1..Len(s.values) |->
                 /\ CanCoerce(s.values[i])
                 /\ GreaterEqual(to_numeric(s.values[i]), r.min)
                 /\ LessThan(to_numeric(s.values[i]), r.max)],
             <<>>)

InRangeValidation_validate(r, s) ==
    IF \E i \in 1..Len(s.values) : ~CanCoerce(s.values[i])
    THEN Raised("validate", "ValueError")
    ELSE Returned("validate",
                  [i \in 1..Len(s.values) |->
                      /\ GreaterEqual(to_numeric(s.values[i]), r.min)
                      /\ LessThan(to_numeric(s.values[i]), r.max)],
                  <<>>)

\* Variant: the except branch answering True as well.
can_call_always(r, var) == TRUE

\* can_call: try self.callable(var), True; except: False.  Calling an object
\* that is not callable raises TypeError, which the bare except catches too.
can_call(r, var) ==
    IF ~r.callable.callable THEN FALSE
    ELSE IF var \in r.callable.raises THEN FALSE
    ELSE TRUE

CanCallValidation_validate(r, s) ==
    Returned("validate", [i \in 1..Len(s.values) |-> can_call(r, s.values[i])], <<>>)

\* Variant: the predicate applied to the rows that are not null only.
CustomElementValidation_validate_dropna(r, s) ==
    LET kept == SelectSeq(s.values, LAMBDA v : v.k # "null")
    IN Returned("validate",
                [i \in 1..Len(kept) |-> kept[i] \in r.validation.true_on], <<>>)

CustomElementValidation_validate(r, s) ==
    Returned("validate",
             [i \in 1..Len(s.values) |-> s.values[i] \in r.validation.true_on], <<>>)

\* The user's series predicate, applied to the whole series.
NotNullRows(s) == SelectSeq(s.values, LAMBDA v : v.k # "null")
ApplySeriesPredicate(p, s) ==
    CASE p.name = "not_null" -> [i \in 1..Len(s.values) |-> s.values[i].k # "null"]
      [] p.name = "dropna_is_x" ->
            [i \in 1..Len(NotNullRows(s)) |-> NotNullRows(s)[i] = Str("x")]

CustomSeriesValidation_validate(r, s) ==
    Returned("validate", ApplySeriesPredicate(r.validation, s), <<>>)

MaskNot(m) == [i \in 1..Len(m) |-> ~m[i]]

\* operator.and_ / operator.or_ on two masks.
ApplyOperator(operator, a, b) ==
    IF Len(a) # Len(b) THEN Raised("validate", "ValueError")
    ELSE Returned("validate",
                  [i \in 1..Len(a) |->
                      IF operator = "and_" THEN a[i] /\ b[i] ELSE a[i] \/ b[i]],
                  <<>>)

RECURSIVE validate(_, _)
\* Variant: the inner mask passed on without negation.
InverseValidation_validate_same(r, s) == validate(r.negated, s)

InverseValidation_validate(r, s) ==
    LET inner == validate(r.negated, s)
    IN IF inner.raised # "" THEN inner
       ELSE Returned("validate", MaskNot(inner.mask), <<>>)

CombinedValidation_validate(r, s) ==
    LET a == validate(r.v_a, s)
        b == validate(r.v_b, s)
    IN IF a.raised # "" THEN a
       ELSE IF b.raised # "" THEN b
       ELSE ApplyOperator(r.operator, a.mask, b.mask)

validate(r, s) ==
    CASE r.cls = "InRangeValidation" -> InRangeValidation_validate(r, s)
      [] r.cls \in {"CanCallValidation", "CanConvertValidation"} ->
            CanCallValidation_validate(r, s)
      [] r.cls = "CustomElementValidation" -> CustomElementValidation_validate(r, s)
      [] r.cls = "CustomSeriesValidation" -> CustomSeriesValidation_validate(r, s)
      [] r.cls = "InverseValidation" -> InverseValidation_validate(r, s)
      [] r.cls = "CombinedValidation" -> CombinedValidation_validate(r, s)

(***************************************************************************)
(* SeriesValidation.get_errors.                                            *)
(***************************************************************************)
ValidationWarning(message, value, row, col) ==
    [message |-> message, value |-> value, row |-> row, column |-> col]

\* series[i]: the value stored under row key i.
ValueAt(s, i) == s.values[CHOOSE p \in 1..Len(s.index) : s.index[p] = i]

\* A series of numbers (with NaN for null) has a numeric dtype; one holding a
\* string, or nothing but nulls, has dtype object.
IsNumericDtype(s) ==
    /\ \A i \in 1..Len(s.values) : s.values[i].k \in {"num", "null"}
    /\ \E i \in 1..Len(s.values) : s.values[i].k = "num"

\* series.unicode.len() > 0, per row.  Reading the attribute raises
\* AttributeError when the Series has no such accessor; where it stands for
\* the string accessor it raises on a numeric dtype, and the length of a
\* value that is not a string is NaN, for which > 0 is false.
HasLength(v) == v.k = "str" /\ Len(v.s) > 0

\* Variant: rows renumbered from zero by position.
EmitWarnings_positional(r, s, validated) ==
    IF Len(validated) # Len(s.index) THEN Raised("get_errors", "IndexError")
    ELSE LET hits == Positions(validated, 1)
         IN Returned("get_errors", <<>>,
                     [j \in 1..Len(hits) |->
                         ValidationWarning(SeriesValidation_message(r),
                                           s.values[hits[j]],
                                           hits[j] - 1,
                                           s.name)])

\* Lines 91-102: boolean indexing of series.index, then one warning per key.
EmitWarnings(r, s, validated) ==
    IF Len(validated) # Len(s.index) THEN Raised("get_errors", "IndexError")
    ELSE LET hits == Positions(validated, 1)
         IN Returned("get_errors", <<>>,
                     [j \in 1..Len(hits) |->
                         ValidationWarning(SeriesValidation_message(r),
                                           ValueAt(s, s.index[hits[j]]),
                                           s.index[hits[j]],
                                           s.name)])

\* Variant: allow_empty not consulted.
get_errors_without_allow_empty(r, s, col, accessor) ==
    LET v == validate(r, s)
    IN IF v.raised # "" THEN Raised("get_errors", v.raised)
       ELSE EmitWarnings(r, s, MaskNot(v.mask))

SeriesValidation_get_errors(r, s, col, accessor) ==
    LET v == validate(r, s)
        simple_validation == MaskNot(v.mask)
    IN IF v.raised # "" THEN Raised("get_errors", v.raised)
       ELSE IF col.allow_empty
       THEN IF ~accessor \/ IsNumericDtype(s)
            THEN Raised("get_errors", "AttributeError")
            ELSE IF Len(simple_validation) # Len(s.values)
            THEN Raised("get_errors", "ValueError")
            ELSE EmitWarnings(r, s,
                     [i \in 1..Len(s.values) |->
                         HasLength(s.values[i]) /\ simple_validation[i]])
       ELSE EmitWarnings(r, s, simple_validation)

\* Variant: the coerced values written back into the caller's series.
series_coerced_in_place(r, s) ==
    IF r.cls = "InRangeValidation" /\ \A i \in 1..Len(s.values) : CanCoerce(s.values[i])
    THEN [s EXCEPT !.values = [i \in 1..Len(s.values) |-> to_numeric(s.values[i])]]
    ELSE s

\* The caller's series after a call: validate and get_errors only read it
\* (line 212 rebinds the local name to the coerced copy).
series_after_call(r, s) == s

(***************************************************************************)
(* Columns the state machine starts from.                                  *)
(***************************************************************************)
RangeIndex(n) == [i \in 1..n |-> i - 1]
SparseIndex(n) == [i \in 1..n |-> 10 - 3 * i]

AnyIndex(n) == {RangeIndex(n), SparseIndex(n)}
PlainIndex(n) == {RangeIndex(n)}

\* The series of up to MaxLen values, over a zero-based index (plain) or over
\* either index.
SeriesOver(values, plain) ==
    UNION {{[name |-> ColumnName, index |-> ix, values |-> vs] :
                ix \in IF plain THEN PlainIndex(Len(vs)) ELSE AnyIndex(Len(vs))} :
           vs \in SeqsUpTo(values, MaxLen)}

NotRemembered == [set |-> FALSE, rule |-> NoRule, outcome |-> NoOutcome, others |-> FALSE]

TypeOK ==
    /\ Len(series.index) = Len(series.values)
    /\ Len(series.values) <= MaxLen
    /\ column.allow_empty \in BOOLEAN
    /\ str_accessor \in BOOLEAN
    /\ Depth(rule) <= MaxDepth
    /\ outcome.op \in {"none", "construct", "validate", "get_errors"}

(***************************************************************************)
(* Actions.                                                                *)
(***************************************************************************)
\* A constructor call: the new object becomes the rule at hand, or the call
\* raises and leaves the rule at hand alone.
Construct(built) ==
    /\ rule' = IF built.raised = "" THEN built.rule ELSE rule
    /\ outcome' = IF built.raised = "" THEN Returned("construct", <<>>, <<>>)
                  ELSE Raised("construct", built.raised)
    /\ UNCHANGED <<series, column, str_accessor, remembered>>

NewInRange(mins, maxs, msgs) ==
    \E min \in mins, max \in maxs, msg \in msgs :
        Construct(Built(InRangeValidation(min, max, msg)))

NewCanCall(funcs) ==
    \E func \in funcs : Construct(CanCallValidation(func, NoMessage))

NewCanConvert(types) ==
    \E type \in types : Construct(CanConvertValidation(type, NoMessage))

NewCustomElement(predicates) ==
    \E validation \in predicates :
        Construct(Built(CustomElementValidation(validation, Message("bad"))))

NewCustomSeries(predicates) ==
    \E validation \in predicates :
        Construct(Built(CustomSeriesValidation(validation, Message("bad"))))

\* deep: wrap any rule up to MaxDepth; otherwise wrap leaf rules only.
MayWrap(deep) ==
    /\ rule # NoRule
    /\ IF deep THEN Depth(rule) < MaxDepth ELSE IsLeaf(rule)

\* ~rule
Invert(deep) ==
    /\ MayWrap(deep)
    /\ Construct(Built(InverseValidation(rule)))

\* rule & other (left) and other & rule
And(others, sides, deep) ==
    /\ MayWrap(deep)
    /\ \E other \in others, left \in sides :
          Construct(Built(IF left THEN CombinedValidation(rule, other, "and_")
                          ELSE CombinedValidation(other, rule, "and_")))

\* rule | other (left) and other | rule
Or(others, sides, deep) ==
    /\ MayWrap(deep)
    /\ \E other \in others, left \in sides :
          Construct(Built(IF left THEN CombinedValidation(rule, other, "or_")
                          ELSE CombinedValidation(other, rule, "or_")))

\* Whether a call on the rule at hand comes after the remembered call and is
\* on another rule.
Intervening == remembered.set /\ rule # remembered.rule

Validate ==
    /\ rule # NoRule
    /\ outcome' = validate(rule, series)
    /\ series' = series_after_call(rule, series)
    /\ remembered' = [remembered EXCEPT !.others = @ \/ Intervening]
    /\ UNCHANGED <<column, str_accessor, rule>>

\* record: keep the first call's rule and result for later comparison.
GetErrors(record) ==
    /\ rule # NoRule
    /\ outcome' = SeriesValidation_get_errors(rule, series, column, str_accessor)
    /\ series' = series_after_call(rule, series)
    /\ remembered' =
          IF record /\ ~remembered.set
          THEN [set |-> TRUE, rule |-> rule, outcome |-> outcome', others |-> FALSE]
          ELSE [remembered EXCEPT !.others = @ \/ Intervening]
    /\ UNCHANGED <<column, str_accessor, rule>>

(***************************************************************************)
(* Spec: the evaluation engine over every rule class, leaf rules wrapped   *)
(* once by a combinator.                                                   *)
(***************************************************************************)
EngineOthers ==
    {InRangeValidation(Fin(0), Fin(10), NoMessage),
     CanCallValidation(RaiseOn5, NoMessage).rule,
     CustomElementValidation(IsX, Message("bad")),
     CustomSeriesValidation(DropnaPred, Message("bad"))}

Init ==
    /\ series \in SeriesOver(CellValues, FALSE)
    /\ column \in [allow_empty : BOOLEAN]
    /\ str_accessor \in BOOLEAN
    /\ rule = NoRule
    /\ outcome = NoOutcome
    /\ remembered = NotRemembered

Next ==
    \/ NewInRange({Fin(0)}, {Fin(10)}, Messages)
    \/ NewCanCall(PyObjects)
    \/ NewCanConvert(PyObjects)
    \/ NewCustomElement(ElementPredicates)
    \/ NewCustomSeries(SeriesPredicates)
    \/ Invert(FALSE)
    \/ And(EngineOthers, BOOLEAN, FALSE)
    \/ Or(EngineOthers, BOOLEAN, FALSE)
    \/ Validate
    \/ GetErrors(FALSE)

Spec == Init /\ [][Next]_vars

(***************************************************************************)
(* SpecAlgebra: nested combinators, up to MaxDepth, evaluated by validate. *)
(***************************************************************************)
AlgebraOthers ==
    {CanCallValidation(IntType, NoMessage).rule,
     CustomElementValidation(IsX, Message("bad"))}

InitAlgebra ==
    /\ series \in SeriesOver(CellValues, TRUE)
    /\ column = [allow_empty |-> FALSE]
    /\ str_accessor = FALSE
    /\ rule = NoRule
    /\ outcome = NoOutcome
    /\ remembered = NotRemembered

NextAlgebra ==
    \/ NewInRange({Fin(0)}, {Fin(10)}, {NoMessage})
    \/ NewCanCall({IntType})
    \/ NewCustomElement(ElementPredicates)
    \/ Invert(TRUE)
    \/ And(AlgebraOthers, {TRUE}, TRUE)
    \/ Or(AlgebraOthers, {TRUE}, TRUE)
    \/ Validate

SpecAlgebra == InitAlgebra /\ [][NextAlgebra]_vars

(***************************************************************************)
(* SpecRange: InRangeValidation over numeric columns and every pair of     *)
(* limits.                                                                 *)
(***************************************************************************)
Limits == {NegInf, Fin(0), Fin(10), PosInf}

InitRange ==
    /\ series \in SeriesOver(RangeValues, TRUE)
    /\ column = [allow_empty |-> FALSE]
    /\ str_accessor = FALSE
    /\ rule = NoRule
    /\ outcome = NoOutcome
    /\ remembered = NotRemembered

NextRange ==
    \/ NewInRange(Limits, Limits, {NoMessage})
    \/ Validate
    \/ GetErrors(FALSE)

SpecRange == InitRange /\ [][NextRange]_vars

(***************************************************************************)
(* SpecFrame: calls on several rules over one column, with the first       *)
(* get_errors call kept for comparison.                                    *)
(***************************************************************************)
FrameOthers == {CanCallValidation(RaiseOn5, NoMessage).rule}

NextFrame ==
    \/ NewInRange({Fin(0)}, {Fin(10)}, {NoMessage})
    \/ NewCanCall({RaiseOn5})
    \/ Invert(FALSE)
    \/ And(FrameOthers, BOOLEAN, FALSE)
    \/ Validate
    \/ GetErrors(TRUE)

SpecFrame == Init /\ [][NextFrame]_vars

(***************************************************************************)
(* Vocabulary of the properties.                                           *)
(***************************************************************************)
Rows == 1..Len(series.values)
IsEmptyValue(v) == v = Str("") \/ v = Null
TheMask == validate(rule, series)
MaskAligned == TheMask.raised = "" /\ Len(TheMask.mask) = Len(series.values)
GetErrorsDone == rule # NoRule /\ outcome.op = "get_errors"
ValidateDone == rule # NoRule /\ outcome.op = "validate"
ReportedRows == [j \in 1..Len(outcome.errors) |-> outcome.errors[j].row]
\* The row keys, in row order, of the rows that satisfy flag.
KeysWhere(flag(_)) ==
    LET chosen == SelectSeq([p \in Rows |-> p], flag)
    IN [j \in 1..Len(chosen) |-> series.index[chosen[j]]]
IsCanCall(r) == r.cls \in {"CanCallValidation", "CanConvertValidation"}

\* C1 (as stated): after get_errors on a rule whose mask covers the column,
\* the call has returned and the warnings are, in row order, exactly the rows
\* whose mask entry is false and which are non-empty or not exempted by
\* allow_empty; a failing number is reported under either setting.
C1_ExactlyFailingRows ==
    (GetErrorsDone /\ MaskAligned) =>
        /\ outcome.raised = ""
        /\ ReportedRows =
              KeysWhere(LAMBDA p : /\ ~TheMask.mask[p]
                                   /\ (~column.allow_empty
                                         \/ ~IsEmptyValue(series.values[p])))

C4_NonCallableRejected ==
    ~(rule.cls = "CanCallValidation" /\ ~rule.callable.callable)

\* C5: for a Can-call or Can-convert rule with a callable f, validate returns
\* the mask that is false exactly where f raises, and with allow_empty false
\* get_errors returns one warning per row on which f raised, in row order.
C5_RaisesBecomeFailures ==
    (IsCanCall(rule) /\ rule.callable.callable) =>
        /\ ValidateDone =>
              /\ outcome.raised = ""
              /\ outcome.mask = [p \in Rows |-> series.values[p] \notin rule.callable.raises]
        /\ (GetErrorsDone /\ ~column.allow_empty) =>
              /\ outcome.raised = ""
              /\ ReportedRows =
                    KeysWhere(LAMBDA p : series.values[p] \in rule.callable.raises)

\* f raises on one of two rows and get_errors returned that one warning.
C5_Witness ==
    /\ rule.cls = "CanCallValidation" /\ rule.callable = RaiseOn5
    /\ GetErrorsDone /\ ~column.allow_empty
    /\ Len(series.values) = 2 /\ Len(outcome.errors) = 1
    /\ outcome.errors[1].value = Num(5)

HasUncoercible == \E p \in Rows : ~CanCoerce(series.values[p])

\* C6: get_errors of a Range rule on a column holding a value that cannot be
\* coerced to a number raises the data error and yields no warning at all.
C6_UncoercibleRaises ==
    (GetErrorsDone /\ rule.cls = "InRangeValidation" /\ HasUncoercible) =>
        /\ outcome.raised = "ValueError"
        /\ outcome.errors = <<>>

\* A Range rule, a column with an uncoercible value next to a coercible one
\* that is out of range, and the call raised.
C6_Witness ==
    /\ GetErrorsDone /\ rule.cls = "InRangeValidation" /\ HasUncoercible
    /\ \E p \in Rows : series.values[p] = Null
    /\ outcome.raised = "ValueError"

WarningFrom(w, message) ==
    /\ \E p \in Rows : series.index[p] = w.row /\ w.value = series.values[p]
    /\ w.column = series.name
    /\ w.message = message

RECURSIVE SeriesPredicatesAnswerEveryRow(_)
SeriesPredicatesAnswerEveryRow(r) ==
    CASE r.cls = "CustomSeriesValidation" ->
            Len(ApplySeriesPredicate(r.validation, series)) = Len(series.values)
      [] r.cls = "InverseValidation" -> SeriesPredicatesAnswerEveryRow(r.negated)
      [] r.cls = "CombinedValidation" ->
            SeriesPredicatesAnswerEveryRow(r.v_a) /\ SeriesPredicatesAnswerEveryRow(r.v_b)
      [] OTHER -> TRUE

RECURSIVE EvaluateAt(_, _)
\* The rule expression evaluated at one row over the masks of its leaves.
EvaluateAt(r, p) ==
    CASE r.cls = "InverseValidation" -> ~EvaluateAt(r.negated, p)
      [] r.cls = "CombinedValidation" /\ r.operator = "and_" ->
            EvaluateAt(r.v_a, p) /\ EvaluateAt(r.v_b, p)
      [] r.cls = "CombinedValidation" /\ r.operator = "or_" ->
            EvaluateAt(r.v_a, p) \/ EvaluateAt(r.v_b, p)
      [] OTHER -> validate(r, series).mask[p]

RECURSIVE LeavesEvaluate(_)
LeavesEvaluate(r) ==
    CASE r.cls = "InverseValidation" -> LeavesEvaluate(r.negated)
      [] r.cls = "CombinedValidation" -> LeavesEvaluate(r.v_a) /\ LeavesEvaluate(r.v_b)
      [] OTHER -> validate(r, series).raised = ""

IsDoubleNegation(r) ==
    r.cls = "InverseValidation" /\ r.negated.cls = "InverseValidation"

NumberInRange(v, r) ==
    /\ r.min.k # "pinf" /\ (r.min.k = "fin" => r.min.n <= v)
    /\ r.max.k # "ninf" /\ (r.max.k = "fin" => v < r.max.n)

C7_RangeHalfOpen ==
    (rule.cls = "InRangeValidation" /\ ~HasUncoercible) =>
        /\ ValidateDone =>
              \A p \in Rows :
                  LET v == series.values[p]
                  IN v.k = "num" =>
                        /\ outcome.mask[p] <=> NumberInRange(v.n, rule)
                        /\ (rule.min = Fin(v.n) /\ rule.max = PosInf) => outcome.mask[p]
                        /\ rule.max = Fin(v.n) => ~outcome.mask[p]
                        /\ (rule.min = NegInf /\ rule.max = PosInf) => outcome.mask[p]
        /\ (GetErrorsDone /\ \A p \in Rows : series.values[p].k = "num") =>
              ReportedRows =
                  KeysWhere(LAMBDA p : ~NumberInRange(series.values[p].n, rule))

\* Range(0, 10) validated on [0, 10]: the minimum passes, the maximum fails.
C7_Witness ==
    /\ ValidateDone /\ rule = InRangeValidation(Fin(0), Fin(10), NoMessage)
    /\ series.values = <<Num(0), Num(10)>>
    /\ outcome.mask = <<TRUE, FALSE>>

====
